---- MODULE Spec2Model ----
(***************************************************************************)
(* A model of the dao-de-jing scraping pipeline: the link collector        *)
(* (src/src/0_link_scraper.py), the chapter extractor                      *)
(* (src/src/1_chapter_scraper.py), the merger                              *)
(* (src/src/2_merge_manual_additions.py) and the cleaner                   *)
(* (src/src/3_cleaner.py).  Every stage is a single-threaded batch run, so *)
(* each has a specification of its own (SpecScrape, SpecScrapeText,        *)
(* SpecExtract, SpecMerge, SpecCleanText, SpecCleaner, SpecLinks) over     *)
(* the same variables: a stage's Init draws its input from bounded sets,   *)
(* its actions are the steps of the stage's code, and the variables of     *)
(* the other stages stay idle.  SpecMain runs the stages as scripts, from  *)
(* their __main__ blocks to the exit status of the process.                *)
(*                                                                         *)
(* Text is a sequence of characters, each a one-character string.          *)
(***************************************************************************)
EXTENDS Integers, Sequences, FiniteSets, TLC

VARIABLES
    pc,          \* position of the running stage in its code
    doc,         \* scraper: the parsed page, its elements in next_element order
    links,       \* scraper: hrefs (less '#') of soup.select('a[href^="#Kap"]')
    li,          \* scraper: index of the next chapter link
    boundaries,  \* scraper: chapter_boundaries
    bi,          \* scraper: loop index i of the extraction loop
    slices,      \* scraper: per boundary, the text nodes collected and chapter_text
    chapters,    \* scraper: the chapters dict, in insertion order
    data,        \* extractor: the "translations" list of links.json
    web,         \* extractor: per entry, what fetching and scraping its link gives
    valid_translations, \* extractor: the entries that pass the filter (their indices)
    ti,          \* extractor: index of the next valid translation
    results,     \* extractor: the documents scraped so far
    main_data,   \* merger: the content of the main file
    additional_folder, \* merger: whether it is a directory, and its files in listdir order
    fi,          \* merger: index of the next file of the listing
    merged_data, \* merger: merged_data["translations"]
    row,         \* clean_text: the row being cleaned
    text,        \* clean_text: the local variable text
    merged,      \* cleaner: the "translations" list of merged.json
    tk,          \* cleaner: index of the translation being flattened
    ck,          \* cleaner: index of the chapter being flattened
    rows,        \* cleaner: the rows of the table
    ri,          \* cleaner: index of the next row to clean
    page,        \* link collector: the index page as fetched
    pk,          \* link collector: index of the next paragraph of the table
    table_data,  \* link collector: table_data["translations"]
    output,      \* the "translations" list written to the output file, None if not written
    result,      \* the value the stage's function returns
    script,      \* the script run as __main__, None when a function is called on its own
    exists,      \* __main__: whether the paths it tests with os.path.exists exist
    exit_status  \* __main__: "running", or the exit status of the process

scrapeVars == <<doc, links, li, boundaries, bi, slices, chapters>>

extractVars == <<data, web, valid_translations, ti, results>>

mergeVars == <<main_data, additional_folder, fi, merged_data>>

cleanTextVars == <<row, text>>

cleanerVars == <<merged, tk, ck, rows, ri>>

linkVars == <<page, pk, table_data>>

mainVars == <<script, exists, exit_status>>

vars == <<pc, scrapeVars, extractVars, mergeVars, cleanTextVars, cleanerVars, linkVars, mainVars, output, result>>

\* what the steps of one stage leave alone: the other stages' variables
notScrape == <<extractVars, mergeVars, cleanTextVars, cleanerVars, linkVars, mainVars, output>>

notExtract == <<scrapeVars, mergeVars, cleanTextVars, cleanerVars, linkVars, mainVars>>

notMerge == <<scrapeVars, extractVars, cleanTextVars, cleanerVars, linkVars, mainVars>>

notCleanText == <<scrapeVars, extractVars, mergeVars, cleanerVars, linkVars, mainVars, output>>

notLinks == <<scrapeVars, extractVars, mergeVars, cleanTextVars, cleanerVars, mainVars, output>>

notCleaner == <<scrapeVars, extractVars, mergeVars, cleanTextVars, linkVars, mainVars, output>>

None == "None"

\* what a function returns: None, or a value
ReturnNone == [none |-> TRUE, value |-> <<>>]

Return(v) == [none |-> FALSE, value |-> v]

\* the output file: not written, or written with a "translations" list
NotWritten == [written |-> FALSE, translations |-> <<>>]

Written(t) == [written |-> TRUE, translations |-> t]

\* re.search that finds nothing
NoMatch == <<>>

-----------------------------------------------------------------------------
(* Characters and strings *)

Digits == {"0", "1", "2", "3", "4", "5", "6", "7", "8", "9"}

Letters == {"a", "b", "K", "p", "u", "U", "P"}

\* \s of Python's re on the characters of the model
IsSpace(c) == c = " "

\* \w of Python's re
IsWordChar(c) == c \in Digits \cup Letters

DigitVal(c) == CASE c = "0" -> 0 [] c = "1" -> 1 [] c = "2" -> 2 [] c = "3" -> 3 [] c = "4" -> 4 [] c = "5" -> 5 [] c = "6" -> 6 [] c = "7" -> 7 [] c = "8" -> 8 [] c = "9" -> 9

\* ord(c), for the characters that occur in an anchor's markup
CharCode(c) == CASE c = "\"" -> 34 [] c \in Digits -> 48 + DigitVal(c) [] c = "K" -> 75 [] c = "a" -> 97 [] c = "p" -> 112 [] OTHER -> 120

\* int(s) of a string of decimal digits
RECURSIVE ParseInt(_)
ParseInt(s) == IF s = <<>> THEN 0 ELSE 10 * ParseInt(SubSeq(s, 1, Len(s) - 1)) + DigitVal(s[Len(s)])

Drop(s, n) == SubSeq(s, n + 1, Len(s))

Take(s, n) == SubSeq(s, 1, n)

StartsWith(s, p) == Len(p) <= Len(s) /\ Take(s, Len(p)) = p

\* s.lstrip() on whitespace
RECURSIVE LStrip(_)
LStrip(s) == IF s # <<>> /\ IsSpace(s[1]) THEN LStrip(Tail(s)) ELSE s

RECURSIVE RStrip(_)
RStrip(s) == IF s # <<>> /\ IsSpace(s[Len(s)]) THEN RStrip(Take(s, Len(s) - 1)) ELSE s

\* s.strip()
Strip(s) == RStrip(LStrip(s))

\* re.sub(r'\s+', ' ', s)
RECURSIVE CollapseWs(_)
CollapseWs(s) == IF s = <<>> THEN <<>> ELSE IF IsSpace(s[1]) THEN <<" ">> \o CollapseWs(LStrip(s)) ELSE <<s[1]>> \o CollapseWs(Tail(s))

\* ' '.join(parts)
RECURSIVE Join(_)
Join(parts) == IF parts = <<>> THEN <<>> ELSE IF Len(parts) = 1 THEN parts[1] ELSE parts[1] \o <<" ">> \o Join(Tail(parts))

\* a < b on Python strings: lexicographic by code point, a proper prefix first
RECURSIVE StrLess(_, _)
StrLess(a, b) == IF b = <<>> THEN FALSE ELSE IF a = <<>> THEN TRUE ELSE IF a[1] = b[1] THEN StrLess(Tail(a), Tail(b)) ELSE CharCode(a[1]) < CharCode(b[1])

\* the length of the run of word characters that s starts with
RECURSIVE WordLen(_)
WordLen(s) == IF s # <<>> /\ IsWordChar(s[1]) THEN 1 + WordLen(Tail(s)) ELSE 0

\* re.search(r'\b(\d+)\b', s).group(1), or NoMatch: the first run of word
\* characters that consists of digits only
RECURSIVE FirstStandaloneInt(_)
FirstStandaloneInt(s) == IF s = <<>> THEN NoMatch ELSE IF ~IsWordChar(s[1]) THEN FirstStandaloneInt(Tail(s)) ELSE LET w == Take(s, WordLen(s)) IN IF \A k \in 1..Len(w) : w[k] \in Digits THEN w ELSE FirstStandaloneInt(Drop(s, Len(w)))

-----------------------------------------------------------------------------
(* 1_chapter_scraper.py: scrape_chapters_by_links_to_json                   *)
(*                                                                         *)
(* The page is the sequence of its elements in the order next_element      *)
(* visits them.  An element is a named anchor <a name="..."> (with the     *)
(* text of its parent element, which the code searches for the chapter     *)
(* number) or a text node.  The chapter links themselves are given by      *)
(* their hrefs, in document order.                                         *)

MaxDoc == 4

MaxLinks == 2

Kap2 == <<"K", "a", "p", "2">>

Kap10 == <<"K", "a", "p", "1", "0">>

AnchorNames == {Kap2, Kap10}

ParentTexts == {<<"1">>, <<"0", "1">>, <<"a", "1", " ", "2">>, <<"a">>}

NodeTexts == {<<" ">>, <<"a">>, <<"b">>}

Anchor(n, pt) == [kind |-> "a", name |-> n, s |-> pt]

TextNode(t) == [kind |-> "text", name |-> <<>>, s |-> t]

Nodes == {Anchor(n, pt) : n \in AnchorNames, pt \in ParentTexts} \cup {TextNode(t) : t \in NodeTexts}

SeqsUpTo(S, n) == UNION {[1..k -> S] : k \in 0..n}

\* soup.find('a', {'name': chapter_id}): the position of the first anchor of
\* that name, 0 when there is none
FindAnchor(d, id) == LET hits == {p \in 1..Len(d) : d[p].kind = "a" /\ d[p].name = id} IN IF hits = {} THEN 0 ELSE CHOOSE p \in hits : \A q \in hits : p <= q

\* str(x['anchor']): the anchor's markup <a name="...">; two anchors' markups
\* share the text before the name, so the name and its closing quote order them
Markup(node) == node.name \o <<"\"">>

\* the sort key of line 84
SortKey(d, b) == Markup(d[b.anchor])

\* list.sort(key=...) is stable: insert x after every element whose key is
\* not greater
RECURSIVE InsertByKey(_, _, _)
InsertByKey(d, sorted, x) == IF sorted = <<>> THEN <<x>> ELSE IF StrLess(SortKey(d, x), SortKey(d, sorted[1])) THEN <<x>> \o sorted ELSE <<sorted[1]>> \o InsertByKey(d, Tail(sorted), x)

RECURSIVE SortBoundaries(_, _)
SortBoundaries(d, bs) == IF bs = <<>> THEN <<>> ELSE InsertByKey(d, SortBoundaries(d, Take(bs, Len(bs) - 1)), bs[Len(bs)])

\* element == end_anchor, for end_anchor a named anchor: Tag.__eq__ compares
\* the tag's name, attributes and contents, not its identity
TagEq(x, a) == x.kind = "a" /\ x.name = a.name

\* The while loop of lines 96-103: the positions of the text nodes appended
\* to content_parts, walking from cur.  Tag.__eq__ compares by value (name,
\* attributes, contents), so the walk ends at the first element equal to
\* end_anchor; endPos = 0 is end_anchor = None.
RECURSIVE Collect(_, _, _)
Collect(d, cur, endPos) == IF cur > Len(d) THEN <<>> ELSE IF endPos # 0 /\ TagEq(d[cur], d[endPos]) THEN <<>> ELSE (IF d[cur].kind = "text" /\ Strip(d[cur].s) # <<>> THEN <<cur>> ELSE <<>>) \o Collect(d, cur + 1, endPos)

ContentParts(d, ps) == [k \in 1..Len(ps) |-> Strip(d[ps[k]].s)]

\* re.sub(f'^{chapter_num}\\s*', '', chapter_text)
StripLeadingNumber(chapter_text, num) == IF StartsWith(chapter_text, num) THEN LStrip(Drop(chapter_text, Len(num))) ELSE chapter_text

\* lines 105-107
ChapterText(parts, num) == Strip(CollapseWs(StripLeadingNumber(Join(parts), num)))

\* chapters[key] = chapter_text on a dict that keeps insertion order
DictSet(dict, key, chapter_text) == IF \E k \in 1..Len(dict) : dict[k].key = key THEN [k \in 1..Len(dict) |-> IF dict[k].key = key THEN [key |-> key, text |-> chapter_text] ELSE dict[k]] ELSE Append(dict, [key |-> key, text |-> chapter_text])

\* sorted(chapters.items(), key=lambda x: int(x[0])), stable
RECURSIVE InsertByInt(_, _)
InsertByInt(sorted, x) == IF sorted = <<>> THEN <<x>> ELSE IF ParseInt(x.key) < ParseInt(sorted[1].key) THEN <<x>> \o sorted ELSE <<sorted[1]>> \o InsertByInt(Tail(sorted), x)

RECURSIVE SortChapters(_)
SortChapters(dict) == IF dict = <<>> THEN <<>> ELSE InsertByInt(SortChapters(Take(dict, Len(dict) - 1)), dict[Len(dict)])

ScrapeIdle == doc = <<>> /\ links = <<>> /\ li = 0 /\ boundaries = <<>> /\ bi = 0 /\ slices = <<>> /\ chapters = <<>>

ExtractIdle == data = <<>> /\ web = <<>> /\ valid_translations = <<>> /\ ti = 0 /\ results = <<>>

MergeIdle == main_data = <<>> /\ additional_folder = <<>> /\ fi = 0 /\ merged_data = <<>>

CleanTextIdle == row = <<>> /\ text = <<>>

CleanerIdle == merged = <<>> /\ tk = 0 /\ ck = 0 /\ rows = <<>> /\ ri = 0

LinksIdle == page = <<>> /\ pk = 0 /\ table_data = <<>>

MainIdle == script = "None" /\ exists = TRUE /\ exit_status = "running"

InitScrape ==
    /\ pc = "links"
    /\ LinksIdle
    /\ ExtractIdle
    /\ MergeIdle
    /\ CleanTextIdle
    /\ CleanerIdle
    /\ output = NotWritten
    /\ doc \in SeqsUpTo(Nodes, MaxDoc)
    /\ links \in SeqsUpTo(AnchorNames, MaxLinks)
    /\ li = 1
    /\ boundaries = <<>>
    /\ bi = 1
    /\ slices = <<>>
    /\ chapters = <<>>
    /\ MainIdle
    /\ result = ReturnNone

\* lines 64-66: no chapter links
NoChapterLinks ==
    /\ pc = "links"
    /\ links = <<>>
    /\ pc' = "done"
    /\ result' = ReturnNone
    /\ UNCHANGED <<scrapeVars, notScrape>>

\* lines 70-81: one iteration of the loop over the chapter links
FindBoundary ==
    /\ pc = "links"
    /\ li <= Len(links)
    /\ LET pos == FindAnchor(doc, links[li])
           num == IF pos = 0 THEN NoMatch ELSE FirstStandaloneInt(doc[pos].s)
       IN  boundaries' = IF pos # 0 /\ num # NoMatch THEN Append(boundaries, [number |-> num, anchor |-> pos, id |-> links[li]]) ELSE boundaries
    /\ li' = li + 1
    /\ UNCHANGED <<pc, doc, links, bi, slices, chapters, result, notScrape>>

\* line 84
SortStep ==
    /\ pc = "links"
    /\ links # <<>>
    /\ li > Len(links)
    /\ boundaries' = SortBoundaries(doc, boundaries)
    /\ pc' = "extract"
    /\ UNCHANGED <<doc, links, li, bi, slices, chapters, result, notScrape>>

\* lines 87-110: one iteration of the extraction loop
ExtractChapter ==
    /\ pc = "extract"
    /\ bi <= Len(boundaries)
    /\ LET current == boundaries[bi]
           endPos == IF bi + 1 <= Len(boundaries) THEN boundaries[bi + 1].anchor ELSE 0
           nodes == Collect(doc, current.anchor, endPos)
           chapter_text == ChapterText(ContentParts(doc, nodes), current.number)
       IN  /\ slices' = Append(slices, [nodes |-> nodes, text |-> chapter_text])
           /\ chapters' = IF chapter_text # <<>> THEN DictSet(chapters, current.number, chapter_text) ELSE chapters
    /\ bi' = bi + 1
    /\ UNCHANGED <<pc, doc, links, li, boundaries, result, notScrape>>

\* lines 112-123
ReturnChapters ==
    /\ pc = "extract"
    /\ bi > Len(boundaries)
    /\ result' = IF chapters = <<>> THEN ReturnNone ELSE Return(SortChapters(chapters))
    /\ pc' = "done"
    /\ UNCHANGED <<scrapeVars, notScrape>>

NextScrape == NoChapterLinks \/ FindBoundary \/ SortStep \/ ExtractChapter \/ ReturnChapters

SpecScrape == InitScrape /\ [][NextScrape]_vars

(* Claims about the chapter scraper *)

\* C1: once sorted (line 84), the chapter boundaries are in the document order
\* of their anchors: a boundary whose anchor stands earlier in the page
\* precedes one whose anchor stands later, whatever the anchors' names.
C1_SortedByDocumentPosition == pc = "extract" => \A i, j \in 1..Len(boundaries) : i < j => boundaries[i].anchor <= boundaries[j].anchor

\* the anchor position of the boundary that follows boundary i in document
\* order (boundaries on one anchor keep their slicing order), past the end of
\* the page when there is none
NextBoundaryPos(i) == LET here == boundaries[i].anchor
                          later == {boundaries[j].anchor : j \in 1..Len(boundaries)} \cap ((here + 1)..Len(doc))
                      IN  IF \E j \in (i + 1)..Len(boundaries) : boundaries[j].anchor = here THEN here ELSE IF later = {} THEN Len(doc) + 1 ELSE CHOOSE p \in later : \A q \in later : p <= q

\* the non-blank text nodes at positions lo..hi-1, in document order
RECURSIVE TextNodesBetween(_, _)
TextNodesBetween(lo, hi) == IF lo >= hi THEN <<>> ELSE (IF doc[lo].kind = "text" /\ \E k \in 1..Len(doc[lo].s) : doc[lo].s[k] # " " THEN <<lo>> ELSE <<>>) \o TextNodesBetween(lo + 1, hi)

\* C2: the text nodes collected for a boundary are exactly the non-blank text
\* nodes from its anchor up to, not including, the anchor of the next boundary
\* in document order, or up to the end of the page for the last one; no text
\* node at or after the next boundary's anchor is collected.
C2_SliceUpToNextAnchor == \A i \in 1..Len(slices) : slices[i].nodes = TextNodesBetween(boundaries[i].anchor, NextBoundaryPos(i))

\* C3: the keys of a returned chapters mapping, read as integers in emitted
\* order, increase strictly (no two keys denote the same integer) and the first
\* is the smallest chapter number with retained text.
C3_KeysStrictlyIncreasing == (pc = "done" /\ ~result.none) => /\ \A i, j \in 1..Len(result.value) : i < j => ParseInt(result.value[i].key) < ParseInt(result.value[j].key)
                                                              /\ \A k \in 1..Len(chapters) : ParseInt(result.value[1].key) <= ParseInt(chapters[k].key)

\* the boundary with chapter number n whose anchor stands last in the page
LastBoundaryOf(n) == CHOOSE k \in 1..Len(boundaries) : /\ boundaries[k].number = n
                                                       /\ \A j \in 1..Len(boundaries) : boundaries[j].number = n => (boundaries[j].anchor < boundaries[k].anchor \/ (boundaries[j].anchor = boundaries[k].anchor /\ j <= k))

\* C4: when several boundaries of a page resolve to one chapter number, the
\* returned mapping holds for that number the text sliced for the last of them
\* in anchor (document) order.
C4_LastAnchorWins == (pc = "done" /\ ~result.none) => \A i, j \in 1..Len(boundaries) : (i # j /\ boundaries[i].number = boundaries[j].number) => \E k \in 1..Len(result.value) : result.value[k].key = boundaries[i].number /\ result.value[k].text = slices[LastBoundaryOf(boundaries[i].number)].text

-----------------------------------------------------------------------------
(* URLs.  A URL is its parts as urlparse splits them; a part is a sequence  *)
(* of tokens (a host label, a path segment, an extension such as ".pdf").  *)
(* The scheme is the same in every URL of the model and is left out.       *)

Url(netloc, path, query, fragment) == [null |-> FALSE, netloc |-> netloc, path |-> path, query |-> query, fragment |-> fragment]

\* a link that is None (JSON null)
NoLink == [null |-> TRUE, netloc |-> <<>>, path |-> <<>>, query |-> <<>>, fragment |-> <<>>]

\* str.lower() on one token
LowerToken(t) == CASE t = "TEREBESS" -> "terebess" [] t = ".PDF" -> ".pdf" [] t = "Doc" -> "doc" [] OTHER -> t

\* s.lower()
Lower(s) == [k \in 1..Len(s) |-> LowerToken(s[k])]

\* the URL as one string: netloc, path, then ?query and #fragment when present
UrlString(u) == u.netloc \o u.path \o (IF u.query = <<>> THEN <<>> ELSE <<"?">> \o u.query) \o (IF u.fragment = <<>> THEN <<>> ELSE <<"#">> \o u.fragment)

\* s.endswith(".pdf")
EndsWithPdf(s) == s # <<>> /\ s[Len(s)] = ".pdf"

\* sub in s, for strings given as token sequences
Contains(s, sub) == \E k \in 0..(Len(s) - Len(sub)) : SubSeq(s, k + 1, k + Len(sub)) = sub

TerebessHu == <<"terebess", "hu">>

-----------------------------------------------------------------------------
(* 1_chapter_scraper.py: process_translations                              *)

MaxEntries == 2

EntryLinks == {NoLink, Url(<<"www", "TEREBESS", "hu">>, <<"tao", "Doc", ".html">>, <<>>, <<>>), Url(<<"terebess", "hu">>, <<"tao", "doc", ".PDF">>, <<>>, <<>>), Url(<<"example", "com">>, <<"doc", ".html">>, <<>>, <<>>)}

EntryNames == {"A", "B"}

Entries == [name : EntryNames, link : EntryLinks, is_pdf : BOOLEAN]

\* what scrape_chapters_by_links_to_json comes to for a link: a document, or
\* None after a failed fetch (lines 125-127) or with no chapter (lines 64-66, 114-116)
PageOutcomes == {"ok", "fetch_error", "no_chapters"}

\* variant: the host compared without folding its case
is_valid_url_CaseSensitive(url) == IF url.null THEN FALSE ELSE Contains(url.netloc, TerebessHu) /\ ~EndsWithPdf(Lower(UrlString(url)))

\* lines 40-49; urlparse(None) has a bytes netloc, so the test raises and the
\* bare except answers False
is_valid_url(url) == IF url.null THEN FALSE ELSE Contains(Lower(url.netloc), TerebessHu) /\ ~EndsWithPdf(Lower(UrlString(url)))

\* the None that scrape_chapters_by_links_to_json returns
NoDocument == [translation_name |-> None, url |-> NoLink]

\* lines 51-130, as process_translations sees it: every path returns the
\* document or None, every exception is caught
ScrapeResult(t, outcome) == IF outcome = "ok" THEN [translation_name |-> t.name, url |-> t.link] ELSE NoDocument

\* the filter of lines 140-143
IsValidTranslation(t) == ~t.is_pdf /\ is_valid_url(t.link)

RECURSIVE FilterIndices(_, _)
FilterIndices(d, k) == IF k > Len(d) THEN <<>> ELSE (IF IsValidTranslation(d[k]) THEN <<k>> ELSE <<>>) \o FilterIndices(d, k + 1)

InitExtract ==
    /\ pc = "load"
    /\ data \in SeqsUpTo(Entries, MaxEntries)
    /\ web \in [1..Len(data) -> PageOutcomes]
    /\ valid_translations = <<>>
    /\ ti = 0
    /\ results = <<>>
    /\ output = NotWritten
    /\ LinksIdle
    /\ MainIdle
    /\ result = ReturnNone
    /\ ScrapeIdle
    /\ MergeIdle
    /\ CleanTextIdle
    /\ CleanerIdle

\* lines 137-147
FilterTranslations ==
    /\ pc = "load"
    /\ valid_translations' = FilterIndices(data, 1)
    /\ ti' = 1
    /\ pc' = IF valid_translations' = <<>> THEN "done" ELSE "scrape"
    /\ UNCHANGED <<data, web, results, output, result, notExtract>>

\* lines 150-156: one iteration of the loop
ScrapeTranslation ==
    /\ pc = "scrape"
    /\ ti <= Len(valid_translations)
    /\ LET k == valid_translations[ti]
           r == ScrapeResult(data[k], web[k])
       IN  results' = IF r # NoDocument THEN Append(results, r) ELSE results
    /\ ti' = ti + 1
    /\ UNCHANGED <<pc, data, web, valid_translations, output, result, notExtract>>

\* lines 158-171
WriteChapters ==
    /\ pc = "scrape"
    /\ ti > Len(valid_translations)
    /\ output' = IF results = <<>> THEN NotWritten ELSE Written(results)
    /\ result' = IF results = <<>> THEN ReturnNone ELSE Return(<<"output_file">>)
    /\ pc' = "done"
    /\ UNCHANGED <<extractVars, notExtract>>

NextExtract == FilterTranslations \/ ScrapeTranslation \/ WriteChapters

SpecExtract == InitExtract /\ [][NextExtract]_vars

(* Claims about process_translations of the chapter extractor *)

\* the entry has a link that is no PDF and points to terebess.hu
C5_PassesFilters(t) == /\ ~t.link.null
                       /\ ~t.is_pdf
                       /\ LowerToken(UrlString(t.link)[Len(UrlString(t.link))]) # ".pdf"
                       /\ \E k \in 1..(Len(t.link.netloc) - 1) : LowerToken(t.link.netloc[k]) = "terebess" /\ LowerToken(t.link.netloc[k + 1]) = "hu"

RECURSIVE C5_Expected(_)
C5_Expected(k) == IF k > Len(data) THEN <<>> ELSE (IF C5_PassesFilters(data[k]) /\ web[k] = "ok" THEN <<[translation_name |-> data[k].name, url |-> data[k].link]>> ELSE <<>>) \o C5_Expected(k + 1)

\* C5: the run emits, in input order, exactly one document for each entry
\* whose link is present, is no PDF, points to the expected host and yields a
\* chapter; every other entry is left out without ending the run; and when no
\* entry yields a document the run returns None and writes no file.
C5_OneDocumentPerGoodEntry == pc = "done" => IF C5_Expected(1) = <<>> THEN result.none /\ ~output.written ELSE ~result.none /\ output.written /\ output.translations = C5_Expected(1)

\* a run in which the first entry passes the filters but its fetch fails, and
\* the second entry's document is still written
C5_Witness == pc = "done" /\ Len(data) = 2 /\ IsValidTranslation(data[1]) /\ web[1] = "fetch_error" /\ output.written /\ Len(output.translations) = 1

-----------------------------------------------------------------------------
(* 2_merge_manual_additions.py: merge_translation_files                    *)
(*                                                                         *)
(* The content of a JSON file is what json.load makes of it: "invalid"     *)
(* (JSONDecodeError), a dict, a list or null.  A dict may have a           *)
(* "chapters" key and a "translations" key, whose value is a list of       *)
(* translation documents or a number; a list may hold the string           *)
(* "translations".  A translation document is named by an identifier.      *)

MaxFiles == 2

DocIds == {"d1", "d2"}

Json(t, c, tr, items, id) == [type |-> t, chapters |-> c, translations |-> tr, items |-> items, id |-> id]

TranslationLists == {<<>>, <<"d1">>, <<"d2", "d1">>}

FileContents == {Json("invalid", FALSE, "absent", <<>>, "x")} \cup {Json("dict", TRUE, "absent", <<>>, d) : d \in DocIds} \cup {Json("dict", TRUE, "list", <<"d2">>, "d1")} \cup {Json("dict", FALSE, "list", l, "x") : l \in TranslationLists} \cup {Json("dict", FALSE, "absent", <<>>, "x"), Json("dict", FALSE, "number", <<>>, "x"), Json("list", FALSE, "member", <<>>, "x"), Json("null", FALSE, "absent", <<>>, "x")}

MainContents == {Json("invalid", FALSE, "absent", <<>>, "x"), Json("null", FALSE, "absent", <<>>, "x"), Json("dict", FALSE, "absent", <<>>, "x")} \cup {Json("dict", FALSE, "list", l, "x") : l \in TranslationLists}

Files == {[json |-> TRUE, data |-> c] : c \in FileContents} \cup {[json |-> FALSE, data |-> Json("dict", TRUE, "absent", <<>>, "d1")]}

\* "translations" in data: None when it raises TypeError (data is null)
HasTranslations(content) == CASE content.type = "null" -> None [] content.type = "list" -> IF content.translations = "member" THEN "True" ELSE "False" [] OTHER -> IF content.translations # "absent" THEN "True" ELSE "False"

\* whether the body of the try of lines 33-42 raises: invalid JSON, the
\* membership test on null, subscripting a list with a string, or extending
\* by a value that is not iterable
Raises(content) == \/ content.type = "invalid"
                   \/ /\ ~(content.type = "dict" /\ content.chapters)
                      /\ \/ HasTranslations(content) = None
                         \/ HasTranslations(content) = "True" /\ (content.type = "list" \/ content.translations = "number")

\* AddFile with the documents already merged left out
AddFile_Dedup(translations, content) == IF Raises(content) THEN translations ELSE IF content.type = "dict" /\ content.chapters THEN (IF \E k \in 1..Len(translations) : translations[k] = content.id THEN translations ELSE Append(translations, content.id)) ELSE IF HasTranslations(content) = "True" THEN translations \o SelectSeq(content.items, LAMBDA d : \A k \in 1..Len(translations) : translations[k] # d) ELSE translations

\* lines 32-46 for one .json file: the translations list afterwards.  An
\* exception leaves the list as it was (it is raised before append or extend
\* changes it) and is caught by the inner handlers.
AddFile(translations, content) == IF Raises(content) THEN translations ELSE IF content.type = "dict" /\ content.chapters THEN Append(translations, content.id) ELSE IF HasTranslations(content) = "True" THEN translations \o content.items ELSE translations

InitMerge ==
    /\ pc = "main"
    /\ main_data \in MainContents
    /\ additional_folder \in [isdir : BOOLEAN, files : SeqsUpTo(Files, MaxFiles)]
    /\ fi = 1
    /\ merged_data = <<>>
    /\ output = NotWritten
    /\ LinksIdle
    /\ MainIdle
    /\ result = ReturnNone
    /\ ScrapeIdle
    /\ ExtractIdle
    /\ CleanTextIdle
    /\ CleanerIdle

\* lines 21-25; an exception here (invalid JSON, or the membership test on a
\* value that is not a container) reaches the outer handler of lines 58-60
LoadMain ==
    /\ pc = "main"
    /\ IF main_data.type = "invalid" \/ HasTranslations(main_data) = None
       THEN pc' = "done" /\ UNCHANGED merged_data
       ELSE /\ pc' = "files"
            /\ merged_data' = IF HasTranslations(main_data) = "True" THEN merged_data \o main_data.items ELSE merged_data
    /\ UNCHANGED <<main_data, additional_folder, fi, output, result, notMerge>>

\* ProcessFile without the inner handlers: an exception in a file ends the
\* merge in the outer handler
ProcessFile_Uncaught ==
    /\ pc = "files"
    /\ additional_folder.isdir
    /\ fi <= Len(additional_folder.files)
    /\ LET f == additional_folder.files[fi]
       IN  IF f.json /\ Raises(f.data)
           THEN pc' = "done" /\ UNCHANGED <<merged_data, fi>>
           ELSE /\ merged_data' = IF f.json THEN AddFile(merged_data, f.data) ELSE merged_data
                /\ fi' = fi + 1
                /\ pc' = pc
    /\ UNCHANGED <<main_data, additional_folder, output, result, notMerge>>

\* lines 29-46: one iteration of the loop over os.listdir
ProcessFile ==
    /\ pc = "files"
    /\ additional_folder.isdir
    /\ fi <= Len(additional_folder.files)
    /\ LET f == additional_folder.files[fi]
       IN  merged_data' = IF f.json THEN AddFile(merged_data, f.data) ELSE merged_data
    /\ fi' = fi + 1
    /\ UNCHANGED <<pc, main_data, additional_folder, output, result, notMerge>>

\* lines 48-56
SaveMerged ==
    /\ pc = "files"
    /\ ~additional_folder.isdir \/ fi > Len(additional_folder.files)
    /\ output' = IF merged_data # <<>> THEN Written(merged_data) ELSE NotWritten
    /\ result' = IF merged_data # <<>> THEN Return(<<"output_file">>) ELSE ReturnNone
    /\ pc' = "done"
    /\ UNCHANGED <<mergeVars, notMerge>>

NextMerge == LoadMain \/ ProcessFile \/ SaveMerged

SpecMerge == InitMerge /\ [][NextMerge]_vars

(* Claims about merge_translation_files *)

\* the documents a file of the folder stands for: itself when it is an object
\* with a "chapters" field, else its component translations when it is an
\* object with a list of "translations"
C6_Docs(f) == IF ~f.json THEN <<>> ELSE IF f.data.type = "dict" /\ f.data.chapters THEN <<f.data.id>> ELSE IF f.data.type = "dict" /\ f.data.translations = "list" THEN f.data.items ELSE <<>>

RECURSIVE C6_DocsFrom(_)
C6_DocsFrom(k) == IF k > Len(additional_folder.files) THEN <<>> ELSE C6_Docs(additional_folder.files[k]) \o C6_DocsFrom(k + 1)

RECURSIVE C6_CountFrom(_)
C6_CountFrom(k) == IF k > Len(additional_folder.files) THEN 0 ELSE Len(C6_Docs(additional_folder.files[k])) + C6_CountFrom(k + 1)

C6_Base == IF main_data.translations = "list" THEN main_data.items ELSE <<>>

\* C6: with a readable base file B and the files A1, A2, ... of the folder in
\* listing order, the merged list is B's translations, then A1's documents,
\* then A2's, ...: its length is the sum of theirs, and nothing is dropped,
\* duplicated, de-duplicated or reordered.
C6_MergeInOrder == (pc = "done" /\ main_data.type = "dict" /\ additional_folder.isdir) => /\ merged_data = C6_Base \o C6_DocsFrom(1)
                                                                                          /\ Len(merged_data) = Len(C6_Base) + C6_CountFrom(1)
                                                                                          /\ merged_data # <<>> => output = Written(merged_data)

\* a merge of a base with d1, a single document d1 and a collection d2, d1:
\* the document that occurs three times is kept three times
C6_Witness == pc = "done" /\ main_data.items = <<"d1">> /\ Len(additional_folder.files) = 2 /\ additional_folder.files[1].data.chapters /\ additional_folder.files[2].data.items = <<"d2", "d1">> /\ output = Written(<<"d1", "d1", "d2", "d1">>)

\* a .json file that is malformed or of no recognized shape: invalid JSON, not
\* an object, or an object with neither "chapters" nor "translations"
C7_Unrecognized(f) == f.json /\ (f.data.type # "dict" \/ (~f.data.chapters /\ f.data.translations = "absent"))

C7_SkipStep == (pc = "files" /\ additional_folder.isdir /\ fi <= Len(additional_folder.files) /\ C7_Unrecognized(additional_folder.files[fi])) => (merged_data' = merged_data /\ pc' = "files" /\ fi' = fi + 1)

C7_Final == pc = "done" => /\ result.none => merged_data = <<>>
                           /\ result.none <=> ~output.written
                           /\ ~result.none => output = Written(merged_data)

\* C7: the merge returns None, writing no file, only with an empty merged
\* list; a file of the folder that is malformed or of no recognized shape is
\* skipped: the list stays as it was, the loop goes on to the next file, and
\* the output is written from whatever was merged.
C7_FailsOnlyWhenEmpty == []C7_Final /\ [][C7_SkipStep]_vars

\* a merge whose first file is invalid JSON and whose second file's document
\* is nevertheless written
C7_Witness == pc = "done" /\ Len(additional_folder.files) = 2 /\ additional_folder.files[1].json /\ additional_folder.files[1].data.type = "invalid" /\ main_data.items = <<>> /\ output = Written(<<"d1">>)

-----------------------------------------------------------------------------
(* 3_cleaner.py: clean_text                                                *)
(*                                                                         *)
(* Besides letters, digits, the space, "-", "." and the double quote, a    *)
(* text may hold "CJK" (one ideograph of U+4E00..U+9FFF), "MARK" (one of   *)
(* the four marker glyphs of line 72), "ENDASH" (U+2013), "NONASCII" (any  *)
(* other character above U+007F), and two tokens that stand for a whole    *)
(* phrase: "EXCERPT" (excerpt_text of line 56) and "FOOTER" (the literal   *)
(* [MODULE:FOOTER]); neither phrase holds a digit or a run of dashes, and  *)
(* neither outlives the step that cuts at it.  There is no line break in   *)
(* a text, so .*$ runs to the end of the text.                             *)

MaxText == 2

\* -{10,} of line 62
DashRun == 10

\* the window text[-10:] of lines 78-81
UpWindow == 10

NonAscii == {"CJK", "MARK", "ENDASH", "NONASCII"}

\* string.punctuation, as far as it occurs in the model
Punctuation == {"-", ".", "\""}

LowerChar(c) == CASE c = "U" -> "u" [] c = "P" -> "p" [] c = "K" -> "k" [] OTHER -> c

LowerStr(s) == [k \in 1..Len(s) |-> LowerChar(s[k])]

Remove(s, S) == SelectSeq(s, LAMBDA c : c \notin S)

\* s.find(sub): the least 0-based index at which sub occurs in s, else -1
Find(s, sub) == LET hits == {k \in 0..(Len(s) - Len(sub)) : SubSeq(s, k + 1, k + Len(sub)) = sub} IN IF hits = {} THEN -1 ELSE CHOOSE k \in hits : \A j \in hits : k <= j

DigitChar(d) == CASE d = 0 -> "0" [] d = 1 -> "1" [] d = 2 -> "2" [] d = 3 -> "3" [] d = 4 -> "4" [] d = 5 -> "5" [] d = 6 -> "6" [] d = 7 -> "7" [] d = 8 -> "8" [] d = 9 -> "9"

\* str(n)
RECURSIVE IntToStr(_)
IntToStr(n) == IF n < 0 THEN <<"-">> \o IntToStr(-n) ELSE IF n < 10 THEN <<DigitChar(n)>> ELSE IntToStr(n \div 10) \o <<DigitChar(n % 10)>>

\* s[:-k] for k > 0: Python clamps a start before the text to its beginning
DropLast(s, k) == IF k >= Len(s) THEN <<>> ELSE Take(s, Len(s) - k)

\* lines 56-60
TruncateExcerpt(t) == LET excerpt_pos == Find(t, <<"EXCERPT">>) IN IF excerpt_pos # -1 THEN Take(t, excerpt_pos) ELSE t

\* line 62: re.sub(r'-{10,}.*$', '', text) cuts at the first run of ten dashes
StripDashRun(t) == LET pos == Find(t, [k \in 1..DashRun |-> "-"]) IN IF pos # -1 THEN Take(t, pos) ELSE t

\* TruncateNextChapter looking for the chapter's own number
TruncateNextChapter_OwnNumber(t, chapter_num) == LET next_chapter_pos == Find(t, IntToStr(chapter_num)) IN IF next_chapter_pos # -1 THEN Take(t, next_chapter_pos) ELSE t

\* lines 64-68
TruncateNextChapter(t, chapter_num) == LET next_chapter == IntToStr(chapter_num + 1)
                                           next_chapter_pos == Find(t, next_chapter)
                                       IN  IF next_chapter_pos # -1 THEN Take(t, next_chapter_pos) ELSE t

\* line 73: re.sub(r'\s*\[MODULE:FOOTER\].*$', '', text) cuts at the first
\* footer token together with the whitespace right before it
StripFooter(t) == LET pos == Find(t, <<"FOOTER">>) IN IF pos # -1 THEN RStrip(Take(t, pos)) ELSE t

\* lines 71-75
BasicCleaning(t) == Strip(CollapseWs(Remove(StripFooter(Remove(Remove(t, {"CJK"}), {"MARK"})), NonAscii)))

\* lines 78-82
RemoveTrailingUp(t) == LET last_ten == IF Len(t) >= UpWindow THEN SubSeq(t, Len(t) - UpWindow + 1, Len(t)) ELSE t
                           up_pos == Find(LowerStr(last_ten), <<"u", "p">>)
                       IN  IF up_pos # -1 THEN DropLast(t, UpWindow - up_pos) ELSE t

\* line 97: re.sub(r'[\u2013\u2014]', '-', text)
NormalizeDashes(t) == [k \in 1..Len(t) |-> IF t[k] = "ENDASH" THEN "-" ELSE t[k]]

\* lines 86-99: lower case, no punctuation, no digits, whitespace collapsed;
\* the character class of line 96 is ["], the two literals r'[""' and ']'
\* being joined
NltkCleaning(t) == Strip(NormalizeDashes(Remove(Strip(CollapseWs(Remove(Remove(LowerStr(t), Punctuation), Digits))), {"\""})))

\* lines 49-102: a text that is no string (JSON null) raises at text.find
\* and the handler returns row['text']
clean_text(r) == IF r.null THEN r.text ELSE NltkCleaning(RemoveTrailingUp(BasicCleaning(TruncateNextChapter(StripDashRun(TruncateExcerpt(r.text)), r.chapter))))

CleanAlphabet == {"a", " ", "6", "1", "0"}

Middles == {<<>>, <<"EXCERPT">>, [k \in 1..(DashRun - 1) |-> "-"], [k \in 1..DashRun |-> "-"]}

Endings == {<<>>, <<"6", "a">>, <<"a", "1", "0">>, <<" ", "FOOTER", "6">>, <<"U", "p", ".">>, <<"CJK", "6">>}

Row(t, n) == [text |-> t, null |-> FALSE, chapter |-> n]

\* a row whose text is JSON null
NullRow(n) == [text |-> <<>>, null |-> TRUE, chapter |-> n]

InitCleanText ==
    /\ pc = "start"
    /\ row \in {Row(a \o m \o e, n) : a \in SeqsUpTo(CleanAlphabet, MaxText), m \in Middles, e \in Endings, n \in {5, 9}} \cup {NullRow(5)}
    /\ text = <<>>
    /\ output = NotWritten
    /\ LinksIdle
    /\ MainIdle
    /\ result = ReturnNone
    /\ ScrapeIdle
    /\ ExtractIdle
    /\ MergeIdle
    /\ CleanerIdle

\* lines 52-53, and the handler of lines 100-102 when text is no string
ReadRow ==
    /\ pc = "start"
    /\ IF row.null
       THEN pc' = "done" /\ result' = Return(row.text) /\ UNCHANGED text
       ELSE pc' = "excerpt" /\ text' = row.text /\ UNCHANGED result
    /\ UNCHANGED <<row, notCleanText>>

\* lines 56-62
PreTruncate ==
    /\ pc = "excerpt"
    /\ text' = StripDashRun(TruncateExcerpt(text))
    /\ pc' = "next_chapter"
    /\ UNCHANGED <<row, result, notCleanText>>

\* lines 64-68
CutNextChapter ==
    /\ pc = "next_chapter"
    /\ text' = TruncateNextChapter(text, row.chapter)
    /\ pc' = "basic"
    /\ UNCHANGED <<row, result, notCleanText>>

\* lines 71-75
CleanBasic ==
    /\ pc = "basic"
    /\ text' = BasicCleaning(text)
    /\ pc' = "up"
    /\ UNCHANGED <<row, result, notCleanText>>

\* lines 78-82
CutTrailingUp ==
    /\ pc = "up"
    /\ text' = RemoveTrailingUp(text)
    /\ pc' = "nltk"
    /\ UNCHANGED <<row, result, notCleanText>>

\* lines 86-99
CleanNltk ==
    /\ pc = "nltk"
    /\ text' = NltkCleaning(text)
    /\ result' = Return(text')
    /\ pc' = "done"
    /\ UNCHANGED <<row, notCleanText>>

NextCleanText == ReadRow \/ PreTruncate \/ CutNextChapter \/ CleanBasic \/ CutTrailingUp \/ CleanNltk

SpecCleanText == InitCleanText /\ [][NextCleanText]_vars

(* Claims about clean_text *)

\* the decimal numeral of a number below 100
C9_Numeral(n) == IF n < 10 THEN <<DigitChar(n)>> ELSE <<DigitChar(n \div 10), DigitChar(n % 10)>>

\* sub stands in t right after the first k characters
C9_OccursAt(t, sub, k) == k + Len(sub) <= Len(t) /\ \A j \in 1..Len(sub) : t[k + j] = sub[j]

C9_CutStep == (pc = "next_chapter" /\ pc' = "basic") => LET num == C9_Numeral(row.chapter + 1)
                                                        IN  IF \E k \in 0..Len(text) : C9_OccursAt(text, num, k)
                                                            THEN /\ Len(text') <= Len(text)
                                                                 /\ text' = SubSeq(text, 1, Len(text'))
                                                                 /\ C9_OccursAt(text, num, Len(text'))
                                                                 /\ \A k \in 0..(Len(text') - 1) : ~C9_OccursAt(text, num, k)
                                                            ELSE text' = text

\* C9: after the boilerplate and dash-run cuts, a text in which the numeral of
\* the next chapter number occurs, as a substring of whatever surrounds it, is
\* cut at the first occurrence: what precedes it is kept and nothing from
\* there on; a text in which it does not occur is left as it is.
C9_CutAtNextChapterNumber == [][C9_CutStep]_vars

\* chapter 5, text "a16a": the 6 inside 16 is where the text is cut
C9_Witness == pc = "basic" /\ row.chapter = 5 /\ row.text = <<"a", "1", "6", "a">> /\ text = <<"a", "1">>

\* "up", in any case, starts at 0-based index k of t
C12_UpAt(t, k) == k >= 0 /\ k + 2 <= Len(t) /\ LowerChar(t[k + 1]) = "u" /\ LowerChar(t[k + 2]) = "p"

\* the 0-based index at which the window of the last UpWindow characters
\* starts: 0 when the text is shorter than the window
C12_WindowStart(t) == IF Len(t) >= UpWindow THEN Len(t) - UpWindow ELSE 0

\* the indices in the window at which "up" starts
C12_Hits(t) == {k \in C12_WindowStart(t)..(Len(t) - 2) : C12_UpAt(t, k)}

C12_UpStep == (pc = "up" /\ pc' = "nltk") => IF C12_Hits(text) = {} THEN text' = text ELSE \E k \in C12_Hits(text) : (\A j \in C12_Hits(text) : k <= j) /\ text' = SubSeq(text, 1, k)

\* C12: when the last ten characters of the text (the whole text when it is
\* shorter) hold "up" in any case, the step of lines 78-82 cuts the text
\* exactly at the first such occurrence, keeping every character before it,
\* for texts of every length; when they hold none, the text is unchanged.
C12_TruncateAtTrailingUp == [][C12_UpStep]_vars

-----------------------------------------------------------------------------
(* 3_cleaner.py: process_translations                                      *)
(*                                                                         *)
(* A translation of merged.json is its chapters mapping, a list of         *)
(* (key, text) items in the order of the JSON object; its name is its      *)
(* place in the list.  A key is a string, a text a string or null.         *)

MaxTranslations == 2

MaxChapters == 2

ChapterKeys == {<<"5">>, <<"9">>, <<"5", "a">>}

ChapterTexts == {[text |-> <<"a", "6">>, null |-> FALSE], [text |-> <<"U", "p">>, null |-> FALSE], [text |-> <<>>, null |-> TRUE]}

\* the chapters mappings: the keys of a JSON object are distinct
ChapterMaps == {m \in SeqsUpTo([key : ChapterKeys, text : ChapterTexts], MaxChapters) : \A i, j \in 1..Len(m) : i # j => m[i].key # m[j].key}

\* whether int(key) returns: the key is a decimal numeral
IsIntLiteral(key) == key # <<>> /\ \A k \in 1..Len(key) : key[k] \in Digits

\* lines 119-126
RowData(translator, item) == [translator |-> translator, chapter |-> ParseInt(item.key), original_text |-> item.text, text |-> item.text, cleaned_text |-> item.text]

\* line 133 for one row: the value clean_text returns, with whether it is a string
CleanedText(r) == [text |-> clean_text([text |-> r.text.text, null |-> r.text.null, chapter |-> r.chapter]), null |-> r.text.null]

InitCleaner ==
    /\ pc = "flatten"
    /\ merged \in SeqsUpTo(ChapterMaps, MaxTranslations)
    /\ tk = 1
    /\ ck = 1
    /\ rows = <<>>
    /\ ri = 1
    /\ output = NotWritten
    /\ LinksIdle
    /\ MainIdle
    /\ result = ReturnNone
    /\ ScrapeIdle
    /\ ExtractIdle
    /\ MergeIdle
    /\ CleanTextIdle

\* lines 117-127: one chapter of a translation becomes a row; a key that int()
\* rejects raises ValueError, which the handler of lines 144-146 turns into
\* return None
FlattenChapter ==
    /\ pc = "flatten"
    /\ tk <= Len(merged)
    /\ ck <= Len(merged[tk])
    /\ IF IsIntLiteral(merged[tk][ck].key)
       THEN rows' = Append(rows, RowData(tk, merged[tk][ck])) /\ ck' = ck + 1 /\ UNCHANGED pc
       ELSE pc' = "done" /\ UNCHANGED <<rows, ck>>
    /\ UNCHANGED <<merged, tk, ri, result, notCleaner>>

\* line 112: on to the next translation
NextTranslation ==
    /\ pc = "flatten"
    /\ tk <= Len(merged)
    /\ ck > Len(merged[tk])
    /\ tk' = tk + 1
    /\ ck' = 1
    /\ UNCHANGED <<pc, merged, rows, ri, result, notCleaner>>

\* line 129
BuildFrame ==
    /\ pc = "flatten"
    /\ tk > Len(merged)
    /\ pc' = "clean"
    /\ UNCHANGED <<cleanerVars, result, notCleaner>>

\* line 133: df.apply calls clean_text on one row
CleanRow ==
    /\ pc = "clean"
    /\ ri <= Len(rows)
    /\ rows' = [rows EXCEPT ![ri].cleaned_text = CleanedText(rows[ri])]
    /\ ri' = ri + 1
    /\ UNCHANGED <<pc, merged, tk, ck, result, notCleaner>>

\* lines 136-139; a frame of no rows has no column original_text, the
\* KeyError of line 136 ends in return None
ReturnFrame ==
    /\ pc = "clean"
    /\ ri > Len(rows)
    /\ result' = IF rows = <<>> THEN ReturnNone ELSE Return(rows)
    /\ pc' = "done"
    /\ UNCHANGED <<cleanerVars, notCleaner>>

NextCleaner == FlattenChapter \/ NextTranslation \/ BuildFrame \/ CleanRow \/ ReturnFrame

SpecCleaner == InitCleaner /\ [][NextCleaner]_vars

(* Claims about process_translations of the cleaner *)

\* C8: a failure in one row never ends the batch: whenever the corpus has a
\* chapter, the table is returned, every (translation, chapter) pair of the
\* corpus is a row of it, also one whose key or text is malformed, and a row
\* whose cleaning raises keeps its original text as cleaned text.
C8_RowFaultIsolation == (pc = "done" /\ \E t \in 1..Len(merged) : merged[t] # <<>>) => /\ ~result.none
                                                                                       /\ \A t \in 1..Len(merged) : \A c \in 1..Len(merged[t]) : \E k \in 1..Len(result.value) : result.value[k].translator = t /\ result.value[k].original_text = merged[t][c].text
                                                                                       /\ \A k \in 1..Len(result.value) : result.value[k].original_text.null => result.value[k].cleaned_text = result.value[k].original_text

-----------------------------------------------------------------------------
(* 0_link_scraper.py: scrape_table_data                                    *)
(*                                                                         *)
(* The page is whether the fetch succeeds, whether the target table is     *)
(* there, and the paragraphs of the table's cells in document order.  A    *)
(* paragraph has the text it shows and, when it holds a hyperlink, the     *)
(* link's href: a relative reference (no netloc), an absolute URL, or      *)
(* none (an <a> without href).                                             *)

MaxParagraphs == 2

\* urljoin(url, '.'): the directory of the index page
base_url == Url(<<"terebess", "hu">>, <<"english", "tao", "/">>, <<>>, <<>>)

Hrefs == {NoLink, Url(<<>>, <<"doc", ".html">>, <<>>, <<>>), Url(<<>>, <<"doc", ".pdf">>, <<>>, <<>>), Url(<<>>, <<"Doc", ".PDF">>, <<>>, <<>>), Url(<<>>, <<"doc", ".pdf">>, <<>>, <<"page">>), Url(<<>>, <<"doc", ".pdf">>, <<"dl">>, <<>>), Url(<<>>, <<"doc", ".html">>, <<"f", ".pdf">>, <<>>), Url(<<"example", "com">>, <<"doc", ".pdf">>, <<>>, <<>>)}

ParagraphTexts == {<<>>, <<" ">>, <<" ", "a", " ">>}

Paragraphs == [has_link : {TRUE}, href : Hrefs, text : ParagraphTexts \ {<<>>}] \cup [has_link : {FALSE}, href : {NoLink}, text : ParagraphTexts]

\* urljoin(base, ref): base itself for no reference, an absolute reference
\* as it is, a relative one in base's directory with its own query and fragment
urljoin(base, ref) == IF ref.null THEN base ELSE IF ref.netloc # <<>> THEN ref ELSE Url(base.netloc, base.path \o ref.path, ref.query, ref.fragment)

\* line 84
is_pdf(absolute_link) == EndsWithPdf(Lower(UrlString(absolute_link)))

\* lines 78-98: the entries one paragraph adds
ParagraphEntries(p) == IF p.has_link THEN LET absolute_link == urljoin(base_url, p.href) IN <<[name |-> Strip(p.text), link |-> absolute_link, is_pdf |-> is_pdf(absolute_link)]>> ELSE IF Strip(p.text) # <<>> THEN <<[name |-> Strip(p.text), link |-> NoLink, is_pdf |-> FALSE]>> ELSE <<>>

InitLinks ==
    /\ pc = "fetch"
    /\ page \in [fetch_ok : BOOLEAN, has_table : BOOLEAN, paragraphs : SeqsUpTo(Paragraphs, MaxParagraphs)]
    /\ pk = 1
    /\ table_data = <<>>
    /\ output = NotWritten
    /\ MainIdle
    /\ result = ReturnNone
    /\ ScrapeIdle
    /\ ExtractIdle
    /\ MergeIdle
    /\ CleanTextIdle
    /\ CleanerIdle

\* lines 53-67: a failed fetch (handler of lines 102-104) or a page without
\* the table returns None
FetchPage ==
    /\ pc = "fetch"
    /\ pc' = IF page.fetch_ok /\ page.has_table THEN "rows" ELSE "done"
    /\ UNCHANGED <<linkVars, result, notLinks>>

\* lines 77-98: one paragraph of the table
ScrapeParagraph ==
    /\ pc = "rows"
    /\ pk <= Len(page.paragraphs)
    /\ table_data' = table_data \o ParagraphEntries(page.paragraphs[pk])
    /\ pk' = pk + 1
    /\ UNCHANGED <<pc, page, result, notLinks>>

\* line 100
ReturnTableData ==
    /\ pc = "rows"
    /\ pk > Len(page.paragraphs)
    /\ result' = Return(table_data)
    /\ pc' = "done"
    /\ UNCHANGED <<linkVars, notLinks>>

NextLinks == FetchPage \/ ScrapeParagraph \/ ReturnTableData

SpecLinks == InitLinks /\ [][NextLinks]_vars

(* Claims about scrape_table_data *)

\* the path of the URL ends in ".pdf", whatever the case of the letters
C10_PathEndsInPdf(u) == u.path # <<>> /\ LowerToken(u.path[Len(u.path)]) = ".pdf"

\* the URL an href resolves to against the page's directory
C10_Resolved(href) == IF href.null THEN base_url ELSE IF href.netloc # <<>> THEN href ELSE [href EXCEPT !.netloc = base_url.netloc, !.path = base_url.path \o href.path]

C10_Entries(p) == IF p.has_link THEN <<[name |-> Strip(p.text), link |-> C10_Resolved(p.href), is_pdf |-> C10_PathEndsInPdf(C10_Resolved(p.href))]>> ELSE IF \E k \in 1..Len(p.text) : p.text[k] # " " THEN <<[name |-> Strip(p.text), link |-> NoLink, is_pdf |-> FALSE]>> ELSE <<>>

RECURSIVE C10_EntriesFrom(_)
C10_EntriesFrom(k) == IF k > Len(page.paragraphs) THEN <<>> ELSE C10_Entries(page.paragraphs[k]) \o C10_EntriesFrom(k + 1)

\* C10: every paragraph with a hyperlink yields exactly one entry, in document
\* order, whose is_pdf says whether the path of the resolved URL ends in
\* ".pdf" in any case, a query or fragment after the path changing nothing;
\* a paragraph without a hyperlink yields a name-only entry when its trimmed
\* text is not empty, and nothing otherwise.
C10_IsPdfByPath == (pc = "done" /\ ~result.none) => result.value = C10_EntriesFrom(1)

-----------------------------------------------------------------------------
(* 1_chapter_scraper.py: scrape_chapters_by_links_to_json on pages whose   *)
(* chapter text holds numbers: one chapter anchor followed by text nodes.  *)

MaxTextNodes == 2

\* text nodes as a chapter has them: the chapter's number, other numbers,
\* words, runs of whitespace
ChapterNodeTexts == {<<"1">>, <<"1", "0">>, <<"2", " ", " ", "a">>, <<"a">>, <<" ">>, <<"0", "1">>, <<"1", "a">>}

InitScrapeText ==
    /\ pc = "links"
    /\ LinksIdle
    /\ ExtractIdle
    /\ MergeIdle
    /\ CleanTextIdle
    /\ CleanerIdle
    /\ output = NotWritten
    /\ doc \in {<<Anchor(Kap2, pt)>> \o [k \in 1..Len(ts) |-> TextNode(ts[k])] : pt \in ParentTexts, ts \in SeqsUpTo(ChapterNodeTexts, MaxTextNodes)}
    /\ links \in {<<>>, <<Kap2>>}
    /\ li = 1
    /\ boundaries = <<>>
    /\ bi = 1
    /\ slices = <<>>
    /\ chapters = <<>>
    /\ MainIdle
    /\ result = ReturnNone

SpecScrapeText == InitScrapeText /\ [][NextScrape]_vars

(* Claims about the post-processing of a chapter's text *)

\* the whitespace runs of s collapsed to one space, and s trimmed
C13_Normalized(s) == Strip(CollapseWs(s))

\* s begins with the numeral num as a complete number: num, then the end of
\* s or whitespace
C13_BeginsWithNumber(s, num) == StartsWith(s, num) /\ (Len(s) = Len(num) \/ IsSpace(s[Len(num) + 1]))

\* s begins with something else: not with num, or with a longer number of
\* which num is only the leading digits
C13_BeginsWithOther(s, num) == ~StartsWith(s, num) \/ (Len(s) > Len(num) /\ s[Len(num) + 1] \in Digits)

C13_Expected(s, num) == IF C13_BeginsWithNumber(s, num) THEN C13_Normalized(Drop(s, Len(num))) ELSE C13_Normalized(s)

\* C13: the post-processing removes from the start of the joined text only a
\* leading repetition of the chapter's own number: a text that begins with the
\* number as a complete number loses it, a text that begins with anything
\* else, a longer number with the same leading digits included, loses nothing
\* but whitespace; the result has its whitespace runs collapsed and is trimmed.
C13_StripsOnlyOwnNumber == \A i \in 1..Len(slices) : LET joined == Join(ContentParts(doc, slices[i].nodes)) num == boundaries[i].number IN (C13_BeginsWithNumber(joined, num) \/ C13_BeginsWithOther(joined, num)) => slices[i].text = C13_Expected(joined, num)

-----------------------------------------------------------------------------
(* The scripts run as __main__, as run.py runs them (run.py lines 20-23):  *)
(* the block under `if __name__ == "__main__"` of each stage calls the     *)
(* stage's function and ends the process.  A process that reaches the end  *)
(* of its script without calling exit ends with status 0.                  *)

Scripts == {"0_link_scraper", "1_chapter_scraper", "2_merge_manual_additions", "3_cleaner"}

\* the script whose function starts at this position
ScriptOf(p) == CASE p = "fetch" -> "0_link_scraper" [] p = "load" -> "1_chapter_scraper" [] p = "main" -> "2_merge_manual_additions" [] p = "flatten" -> "3_cleaner" [] OTHER -> "None"

\* the scripts whose __main__ tests its input paths before the call
TestsPaths == {"2_merge_manual_additions", "3_cleaner"}

stageVars == <<scrapeVars, extractVars, mergeVars, cleanTextVars, cleanerVars, linkVars>>

InitMain == InitLinks \/ InitExtract \/ InitMerge \/ InitCleaner

\* the start of a __main__ block up to the call of the stage's function:
\* 2_merge_manual_additions.py lines 63-73 and 3_cleaner.py lines 203-212 exit
\* with status 1 when an input path does not exist; 0_link_scraper.py lines
\* 111-114 and 1_chapter_scraper.py lines 182-189 test nothing
StartScript ==
    /\ script = "None"
    /\ ScriptOf(pc) \in Scripts
    /\ script' = ScriptOf(pc)
    /\ exists' \in (IF ScriptOf(pc) \in TestsPaths THEN BOOLEAN ELSE {TRUE})
    /\ exit_status' = IF exists' THEN "running" ELSE "1"
    /\ UNCHANGED <<pc, stageVars, output, result>>

\* the call of the stage's function
RunLinks == script = "0_link_scraper" /\ exit_status = "running" /\ NextLinks

RunExtract == script = "1_chapter_scraper" /\ exit_status = "running" /\ NextExtract

RunMerge == script = "2_merge_manual_additions" /\ exit_status = "running" /\ NextMerge

RunCleaner == script = "3_cleaner" /\ exit_status = "running" /\ NextCleaner

\* 0_link_scraper.py lines 116-127: the data is saved, or the failure is
\* logged; the script ends there in both branches
ExitLinks ==
    /\ script = "0_link_scraper"
    /\ exit_status = "running"
    /\ pc = "done"
    /\ output' = IF result.none THEN output ELSE Written(result.value)
    /\ exit_status' = "0"
    /\ UNCHANGED <<pc, stageVars, result, script, exists>>

\* 1_chapter_scraper.py lines 191-195: a message is printed in both branches
\* and the script ends
ExitExtract ==
    /\ script = "1_chapter_scraper"
    /\ exit_status = "running"
    /\ pc = "done"
    /\ exit_status' = "0"
    /\ UNCHANGED <<pc, stageVars, output, result, script, exists>>

\* 2_merge_manual_additions.py line 75: the value merge_translation_files
\* returns is not looked at
ExitMerge ==
    /\ script = "2_merge_manual_additions"
    /\ exit_status = "running"
    /\ pc = "done"
    /\ exit_status' = "0"
    /\ UNCHANGED <<pc, stageVars, output, result, script, exists>>

\* 3_cleaner.py lines 216-247: exit(1) when process_translations returned
\* None, the end of the script otherwise
ExitCleaner ==
    /\ script = "3_cleaner"
    /\ exit_status = "running"
    /\ pc = "done"
    /\ exit_status' = IF result.none THEN "1" ELSE "0"
    /\ UNCHANGED <<pc, stageVars, output, result, script, exists>>

NextMain == StartScript \/ RunLinks \/ RunExtract \/ RunMerge \/ RunCleaner \/ ExitLinks \/ ExitExtract \/ ExitMerge \/ ExitCleaner

SpecMain == InitMain /\ [][NextMain]_vars

(* Claims about the __main__ blocks *)

\* the stage hit an unrecoverable error: an input path is missing, or the
\* stage's function returned None (fetch failure, table absent, malformed
\* input file, empty result set)
C11_Failed == ~exists \/ (pc = "done" /\ result.none)

\* C11: whenever a stage hits an unrecoverable error its process ends with a
\* non-zero exit status; no stage exits with status 0 after such a failure.
C11_NonZeroExitOnFailure == (script \in Scripts /\ exit_status # "running" /\ C11_Failed) => exit_status # "0"

====
